---------------------------- MODULE Spec2Model ----------------------------
(***************************************************************************)
(* The store-based authentication state machine (auth-store), the auth     *)
(* facade it calls (auth) and the gateway change-event subscription.       *)
(*                                                                         *)
(* Every async function is cut at its awaits: one action per synchronous   *)
(* segment.  The remote auth gateway and the business-context resolver are *)
(* the environment: every outcome they can deliver is a nondeterministic   *)
(* choice.  A nullable value is encoded with the id "null".                *)
(***************************************************************************)
EXTENDS Naturals, Sequences, FiniteSets

\* ------------------------------------------------------------------ bounds
\* Number of action calls made by the views in one page session.
MaxCalls == 2
\* Number of change events that come from outside this page (another tab).
MaxExternalEvents == 1

\* ------------------------------------------------------------------ values
null == "null"
Users == {"u1", "u2"}
BusinessIds == {"b1"}
NoStatus == 0

NoUser == [id |-> null, businessId |-> null]
NoError == [message |-> null, status |-> NoStatus]

\* AuthUser: {id, email, name?, businessId?}; email and name are functions of
\* the id and are left out.
AuthUser(id, biz) == [id |-> id, businessId |-> biz]

\* AuthError: {message, status?}.
AuthError(message, status) == [message |-> message, status |-> status]

\* What the gateway answers to a request: a returned error, a raised exception.
GatewayErrors == {AuthError("Invalid login credentials", 400)}
Exceptions == {"Network request failed"}

\* A session as the gateway reports it: the user id and the business_id of
\* the user metadata (null when the metadata carries none).
Sessions == [id : Users, meta : BusinessIds \cup {null}]
NoSession == [id |-> null, meta |-> null]

\* The outcome of one gateway request:
\*   ok    - {data, error: null}       err   - {data, error}
\*   throw - the call rejects          hang  - the call never settles
\* Whether a request hangs is fixed when it is issued; what it answers
\* otherwise is chosen when the answer is delivered, the first moment the
\* program can see it.
Outcome(kind, session, error, message) ==
    [kind |-> kind, session |-> session, error |-> error, message |-> message]
OkOutcomes == {Outcome("ok", s, NoError, null) : s \in Sessions \cup {NoSession}}
ErrOutcomes == {Outcome("err", NoSession, e, null) : e \in GatewayErrors}
ThrowOutcomes == {Outcome("throw", NoSession, NoError, m) : m \in Exceptions}
HangOutcome == Outcome("hang", NoSession, NoError, null)

\* ------------------------------------------------------------------- state
VARIABLES
    store,       \* the store's AuthState: status, user, businessId, error, isLoading
    cache,       \* the business-context resolver's cached business id
    listener,    \* whether the change-event callback is registered
    init,        \* the initialize() call
    cred,        \* the signIn() / signUp() call
    so,          \* the signOut() call
    eso,         \* the enhancedSignOut() call
    rs,          \* the refreshSession() call
    sbc,         \* the setBusinessContext() call
    handlers,    \* change-event handlers suspended at an await, in arrival order
    outOfOrder,  \* a handler wrote the store after a later event's handler did
    stale,       \* another writer wrote the store while initialize() was suspended
    calls,       \* action calls made so far
    external,    \* change events from outside this page so far
    guard,       \* a mounted ProtectedRoute: its hooks' state and what it did
    login,       \* a mounted login view: its state, its refs and its checks
    script,      \* what the environment answers: anything, or as fixed beforehand
    context      \* the AuthProvider of the context-based machine: user, isLoading
                 \* and its enhancedSignOut call

storeVars == <<store, cache, listener, init, cred, so, eso, rs, sbc, handlers,
               outOfOrder, stale, calls, external>>

vars == <<storeVars, guard, login, script, context>>

\* ------------------------------------------------ the environment's script
\* A second business id, for a session whose metadata carries another id
\* than the cached one.
MetadataIds == BusinessIds \cup {"b2"}

\* How the resolver answers a set or a clear: its result and whether it
\* changed the cache.
ResolverAnswer(r, done) == [r |-> r, done |-> done]
ClearAnswers == {ResolverAnswer("ok", TRUE)} \cup {ResolverAnswer("throw", d) : d \in BOOLEAN}
SetAnswers ==
    {ResolverAnswer("ok", TRUE)}
        \cup {ResolverAnswer(k, d) : k \in {"fail", "throw"}, d \in BOOLEAN}

\* What a view sees of a settled state: the status and whether there is a user.
Summary(state) == [status |-> state.status, user |-> state.user.id # null]
NoSummary == [status |-> "none", user |-> FALSE]

\* The call sites that await a clear, and a set, in signIn, signUp, signOut
\* and the change-event handlers.
ClearSites == {"signOut", "auth.signOut", "emergency", "auth.handler", "store.handler"}
SetSites == {"auth.signIn", "auth.handler"}
Resolves == [clear |-> [s \in ClearSites |-> ResolverAnswer("ok", TRUE)],
             set |-> [s \in SetSites |-> ResolverAnswer("ok", TRUE)]]

\* The environment is free, every answer possible at every request, or it
\* repeats itself: the action called, the gateway's answer to it and the
\* resolver's answer at each call site are fixed.  first: the state the first
\* call settled in.
Script(action, gateway, clear, set) ==
    [free |-> FALSE, action |-> action, gateway |-> gateway, clear |-> clear,
     set |-> set, first |-> NoSummary]
Free ==
    [free |-> TRUE, action |-> "none", gateway |-> HangOutcome,
     clear |-> Resolves.clear, set |-> Resolves.set, first |-> NoSummary]

\* The answers the gateway can give to a request, and whether it can hang.
Offered(outcomes) == IF script.free THEN outcomes ELSE {script.gateway}
Hangs == IF script.free THEN BOOLEAN ELSE {FALSE}

\* ---------------------------------------------------- the store's states
\* set({status: 'unauthenticated', user: null, businessId: null, error, isLoading: false})
Unauthenticated(error) ==
    [status |-> "unauthenticated", user |-> NoUser, businessId |-> null,
     error |-> error, isLoading |-> FALSE]

\* Faulty variant: the write leaves `error` out, and the store, which merges
\* a partial write, keeps the error it had.
Authenticated_keepError(user, businessId) ==
    [status |-> "authenticated", user |-> user, businessId |-> businessId,
     error |-> store.error, isLoading |-> FALSE]

\* set({status: 'authenticated', user, businessId, error: null, isLoading: false})
Authenticated(user, businessId) ==
    [status |-> "authenticated", user |-> user, businessId |-> businessId,
     error |-> NoError, isLoading |-> FALSE]

\* Faulty variant: only status and isLoading are written, user is kept.
Authenticating_spread ==
    [store EXCEPT !.status = "authenticating", !.isLoading = TRUE]

\* set({status: 'authenticating', user: null, businessId: null, error: null, isLoading: true})
Authenticating ==
    [status |-> "authenticating", user |-> NoUser, businessId |-> null,
     error |-> NoError, isLoading |-> TRUE]

\* Faulty variant: the spread write without isLoading.
SigningOut_noLoading(currentState) ==
    [currentState EXCEPT !.status = "signing-out"]

\* set({...currentState, status: 'signing-out', isLoading: true})
SigningOut(currentState) ==
    [currentState EXCEPT !.status = "signing-out", !.isLoading = TRUE]

\* set({...currentState, user: {...currentState.user, businessId}, businessId})
WithBusiness(currentState, businessId) ==
    [currentState EXCEPT !.user.businessId = businessId, !.businessId = businessId]

\* The store as create() builds it.
InitialState ==
    [status |-> "initializing", user |-> NoUser, businessId |-> null,
     error |-> NoError, isLoading |-> TRUE]

\* ---------------------------------------- the business-context resolver
\* clearBusinessContext(): resolves with the cache cleared, or rejects having
\* cleared the cache or not.
ClearResults(c) ==
    {[r |-> "ok", cache |-> null]} \cup {[r |-> "throw", cache |-> x] : x \in {c, null}}

\* setBusinessContext(id): {success: true} with the cache set, {success: false}
\* or a rejection with the cache set or not (a partial failure).
SetResults(c, id) ==
    {[r |-> "ok", cache |-> id]}
        \cup {[r |-> k, cache |-> x] : k \in {"fail", "throw"}, x \in {c, id}}

\* getCurrentBusinessId(): synchronous and cache-only, it returns the cached
\* id and does not throw.
ReadResults(c) == {c}

ResolverMessage == "Business context failed"

\* The results of the clear, and of the set, that the call site `site` awaits.
Clear(site, c) ==
    IF script.free THEN ClearResults(c)
    ELSE {x \in ClearResults(c) :
             /\ x.r = script.clear[site].r
             /\ x.cache = IF script.clear[site].done THEN null ELSE c}
Store(site, c, id) ==
    IF script.free THEN SetResults(c, id)
    ELSE {x \in SetResults(c, id) :
             /\ x.r = script.set[site].r
             /\ x.cache = IF script.set[site].done THEN id ELSE c}

\* ------------------------------------------------------------ the facade
\* auth.getSession(): the gateway's answer as {data: {session}, error}.
auth_getSession(o) ==
    CASE o.kind = "ok" -> [session |-> o.session, error |-> NoError]
      [] o.kind = "err" ->
            [session |-> NoSession, error |-> AuthError(o.error.message, o.error.status)]
      [] OTHER -> [session |-> NoSession, error |-> AuthError(o.message, 500)]

\* What the gateway answered to a request: its kind and the message of its
\* error or exception.  NoRequest: the gateway call was not issued.
GatewayAnswer(o) ==
    [kind |-> o.kind,
     message |-> IF o.kind = "err" THEN o.error.message ELSE o.message]
NoRequest == [kind |-> "none", message |-> null]

\* What a session query answered, as the branches of initialize() tell it
\* apart: a returned error (the facade returns a raise as one), a session
\* with a user, no session.
Query(result) ==
    IF result.error # NoError THEN "error"
    ELSE IF result.session.id # null THEN "live" ELSE "empty"

\* auth.getUser(): the gateway's answer as {data: {user}, error}.
auth_getUser(o) ==
    CASE o.kind = "ok" -> [user |-> o.session, error |-> NoError]
      [] o.kind = "err" ->
            [user |-> NoSession, error |-> AuthError(o.error.message, o.error.status)]
      [] OTHER -> [user |-> NoSession, error |-> AuthError(o.message, 500)]

\* auth.signIn() / auth.signUp() up to the gateway's answer: {data, error}.
auth_credentials(o) ==
    CASE o.kind = "ok" -> [session |-> o.session, error |-> NoError]
      [] o.kind = "err" ->
            [session |-> NoSession, error |-> AuthError(o.error.message, o.error.status)]
      [] OTHER -> [session |-> NoSession, error |-> AuthError(o.message, 500)]

\* Faulty variant: the timer's rejection is returned as an error.
auth_signOut_timeoutFails(o) ==
    CASE o.kind = "err" -> AuthError(o.error.message, o.error.status)
      [] o.kind = "hang" -> AuthError("Supabase signOut timeout", 500)
      [] OTHER -> NoError

\* auth.signOut() after the race of the gateway call against the 2000 ms
\* timer: the inner catch takes a raise and the timer alike.
auth_signOut(o) ==
    CASE o.kind = "err" -> AuthError(o.error.message, o.error.status)
      [] OTHER -> NoError

\* auth.enhancedSignOut(): the cleanup routine's result as {error}.
auth_enhancedSignOut(o) ==
    CASE o.kind = "ok" -> NoError
      [] o.kind = "err" -> o.error
      [] OTHER -> AuthError(o.message, 500)

\* ----------------------------------------------------------------- calls
\* A call is idle, suspended at an await (pc names the awaited call), or done
\* (ret: the error it returned or threw, NoError without one).
Idle == [pc |-> "idle"]
At(pc) == [pc |-> pc]
Done(ret) == [pc |-> "done", ret |-> ret]
Callable(c) == c.pc \in {"idle", "done"} /\ calls < MaxCalls
\* A sign-out has completed.
SignedOut == so.pc = "done" \/ eso.pc = "done"

\* A gateway request that may never settle: hang is fixed when it is issued
\* (signedOut: whether a sign-out had completed by then).
Request(pc, hang) == [pc |-> pc, hang |-> hang, signedOut |-> SignedOut]

\* A write of the store by anything but initialize().
Set(state) ==
    /\ store' = state
    /\ stale' = (stale \/ init.pc = "getSession")

\* No ProtectedRoute is mounted.
Unmounted == [variant |-> "none"]

\* No login view is mounted.
NoLogin == [mounted |-> FALSE]

\* No context-based AuthProvider is mounted.
NoContext == [mounted |-> FALSE]

Init ==
    /\ store = InitialState
    /\ cache \in BusinessIds \cup {null}
    /\ listener = FALSE
    /\ init = Idle /\ cred = Idle /\ so = Idle /\ eso = Idle /\ rs = Idle /\ sbc = Idle
    /\ handlers = <<>>
    /\ outOfOrder = FALSE
    /\ stale = FALSE
    /\ calls = 0
    /\ external = 0
    /\ guard = Unmounted
    /\ login = NoLogin
    /\ script = Free
    /\ context = NoContext

\* ------------------------------------------------- gateway change events
\* The change-event callback of the store, called with a user:
\* reads the cached business id and sets 'authenticated'.
callback_user(user, read) ==
    Authenticated(IF read # null THEN AuthUser(user.id, read) ELSE user, read)

\* A handler suspended at an await.  cached: the business id cached when the
\* event arrived; overtaken: the handler of an event that arrived later has
\* written the store already.
Handler(session, businessId, cached, pc) ==
    [session |-> session, businessId |-> businessId, cached |-> cached, pc |-> pc,
     overtaken |-> FALSE]

\* The handlers `hs` once a handler that arrived after the first n of them
\* has written the store.
Overtake(hs, n) ==
    [k \in 1..Len(hs) |-> IF k <= n THEN [hs[k] EXCEPT !.overtaken = TRUE] ELSE hs[k]]

Remove(hs, i) == SubSeq(hs, 1, i - 1) \o SubSeq(hs, i + 1, Len(hs))

\* Handler i calls the store's callback, which writes `state`, and ends.
HandlerSet(i, state) ==
    /\ Set(state)
    /\ outOfOrder' = (outOfOrder \/ handlers[i].overtaken)
    /\ handlers' = Remove(Overtake(handlers, i - 1), i)

\* Handler i ends without a call of the store's callback.
HandlerDrop(i) ==
    /\ handlers' = Remove(handlers, i)
    /\ UNCHANGED <<store, stale, outOfOrder>>

\* A change event arrives: supabase calls the facade's async handler, which
\* runs to its first await.  Without a registered callback nothing happens.
\* No session: the handler awaits clearBusinessContext.
ArriveSignedOut ==
    handlers' = IF listener
                THEN Append(handlers, Handler(NoSession, null, cache, "facadeClear"))
                ELSE handlers

\* A session with a user: businessId = metadata.business_id || cached id; with
\* a businessId the handler awaits setBusinessContext, without one it calls
\* the store's callback at once.
ArriveSignedIn(session) ==
    IF ~listener
    THEN UNCHANGED <<store, stale, handlers, outOfOrder>>
    ELSE LET businessId == IF session.meta # null THEN session.meta ELSE cache
         IN IF businessId # null
            THEN /\ handlers' = Append(handlers,
                                        Handler(session, businessId, cache, "setContext"))
                 /\ UNCHANGED <<store, stale, outOfOrder>>
            ELSE \E read \in ReadResults(cache) :
                    IF read = "throw"
                    THEN UNCHANGED <<store, stale, handlers, outOfOrder>>
                    ELSE /\ Set(callback_user(AuthUser(session.id, null), read))
                         /\ handlers' = Overtake(handlers, Len(handlers))
                         /\ UNCHANGED outOfOrder

\* An event from outside this page (a sign-in or sign-out in another tab).
ExternalEvent ==
    /\ external < MaxExternalEvents
    /\ listener
    /\ external' = external + 1
    /\ \E session \in Sessions \cup {NoSession} :
          IF session.id = null
          THEN ArriveSignedOut /\ UNCHANGED <<store, stale, outOfOrder>>
          ELSE ArriveSignedIn(session)
    /\ UNCHANGED <<cache, listener, init, cred, so, eso, rs, sbc, calls>>
    /\ UNCHANGED <<guard, login, script, context>>

\* The facade's handler resumes after `await setBusinessContext(businessId)`
\* and calls the store's callback with the user.
handler_setContext ==
    \E i \in DOMAIN handlers :
        /\ handlers[i].pc = "setContext"
        /\ \E r \in Store("auth.handler", cache, handlers[i].businessId) :
              /\ cache' = r.cache
              /\ \E read \in ReadResults(r.cache) :
                    IF r.r = "throw" \/ read = "throw"
                    THEN HandlerDrop(i)
                    ELSE HandlerSet(i, callback_user(AuthUser(handlers[i].session.id,
                                                              handlers[i].businessId), read))
        /\ UNCHANGED <<listener, init, cred, so, eso, rs, sbc, calls, external>>
    /\ UNCHANGED <<guard, login, script, context>>

\* The facade's handler resumes after `await clearBusinessContext()` and calls
\* the store's callback with null, which awaits clearBusinessContext itself.
handler_facadeClear ==
    \E i \in DOMAIN handlers :
        /\ handlers[i].pc = "facadeClear"
        /\ \E r \in Clear("auth.handler", cache) :
              /\ cache' = r.cache
              /\ handlers' = IF r.r = "throw" THEN Remove(handlers, i)
                             ELSE [handlers EXCEPT ![i].pc = "storeClear"]
        /\ UNCHANGED <<store, stale, outOfOrder, listener, init, cred, so, eso, rs,
                       sbc, calls, external>>
    /\ UNCHANGED <<guard, login, script, context>>

\* Faulty variant: the store's callback sets 'unauthenticated' whatever its
\* clear did.
handler_storeClear_unawaited ==
    \E i \in DOMAIN handlers :
        /\ handlers[i].pc = "storeClear"
        /\ \E r \in Clear("store.handler", cache) : cache' = r.cache
        /\ HandlerSet(i, Unauthenticated(NoError))
        /\ UNCHANGED <<listener, init, cred, so, eso, rs, sbc, calls, external>>
    /\ UNCHANGED <<guard, login, script, context>>

\* The store's callback resumes after its `await clearBusinessContext()` and
\* sets 'unauthenticated'.
handler_storeClear ==
    \E i \in DOMAIN handlers :
        /\ handlers[i].pc = "storeClear"
        /\ \E r \in Clear("store.handler", cache) :
              /\ cache' = r.cache
              /\ IF r.r = "throw"
                 THEN HandlerDrop(i)
                 ELSE HandlerSet(i, Unauthenticated(NoError))
        /\ UNCHANGED <<listener, init, cred, so, eso, rs, sbc, calls, external>>
    /\ UNCHANGED <<guard, login, script, context>>

\* ------------------------------------------------------------ initialize
\* An initialize() that returned; query: what its session query answered,
\* "none" without one; writes: the set() calls of this run, each of which
\* wrote isLoading: false.
InitializeDone(marker, gateway, query, writes) ==
    [pc |-> "done", ret |-> NoError, marker |-> marker, gateway |-> gateway,
     query |-> query, writes |-> writes]

\* initialize() suspended at its session query (marker: what the local
\* marker check answered before it; signedOut: whether a sign-out had
\* completed when the query was issued).
Verifying(marker, hang) ==
    [pc |-> "getSession", hang |-> hang, marker |-> marker, signedOut |-> SignedOut]

\* Faulty variant: the session is verified with the gateway whatever the
\* local marker says.
initialize_alwaysVerifies ==
    /\ Callable(init)
    /\ calls' = calls + 1
    /\ stale' = FALSE
    /\ \E likelyAuthenticated \in BOOLEAN, hang \in BOOLEAN :
          init' = Verifying(likelyAuthenticated, hang)
    /\ UNCHANGED <<store, cache, listener, cred, so, eso, rs, sbc, handlers, outOfOrder,
                   external>>
    /\ UNCHANGED <<guard, login, script, context>>

SessionOutcomes == OkOutcomes \cup ErrOutcomes \cup ThrowOutcomes

\* initialize() up to `await auth.getSession()`: without the local marker it
\* sets 'unauthenticated' and returns.
initialize ==
    /\ Callable(init)
    /\ calls' = calls + 1
    /\ stale' = FALSE
    /\ \E likelyAuthenticated \in BOOLEAN :
          IF ~likelyAuthenticated
          THEN /\ store' = Unauthenticated(NoError)
               /\ init' = InitializeDone(FALSE, NoRequest, "none", 1)
          ELSE /\ \E hang \in BOOLEAN : init' = Verifying(TRUE, hang)
               /\ UNCHANGED store
    /\ UNCHANGED <<cache, listener, cred, so, eso, rs, sbc, handlers, outOfOrder,
                   external>>
    /\ UNCHANGED <<guard, login, script, context>>

\* Faulty variant: a failed session query is taken for an empty session.
initialize_settled_dropsError(result, read, registered) ==
    IF result.error # NoError \/ result.session.id = null THEN Unauthenticated(NoError)
    ELSE IF ~registered THEN Unauthenticated(AuthError(CHOOSE m \in Exceptions : TRUE, NoStatus))
    ELSE LET validatedBusinessId == IF read = "throw" THEN null ELSE read
         IN Authenticated(AuthUser(result.session.id, validatedBusinessId),
                          validatedBusinessId)

\* The state initialize() sets for a session query that answered.
initialize_settled(result, read, registered) ==
    IF result.error # NoError THEN Unauthenticated(result.error)
    ELSE IF result.session.id = null THEN Unauthenticated(NoError)
    ELSE IF ~registered THEN Unauthenticated(AuthError(CHOOSE m \in Exceptions : TRUE, NoStatus))
    ELSE LET validatedBusinessId == IF read = "throw" THEN null ELSE read
         IN Authenticated(AuthUser(result.session.id, validatedBusinessId),
                          validatedBusinessId)

\* initialize() resumes with the session query's answer.  With a live session
\* it sets 'authenticated' and then registers the change-event callback; a
\* raise there lands in the catch, which sets 'unauthenticated'.
initialize_getSession ==
    /\ init.pc = "getSession"
    /\ ~init.hang
    /\ \E o \in SessionOutcomes, read \in ReadResults(cache), registered \in BOOLEAN :
          LET result == auth_getSession(o)
              live == result.error = NoError /\ result.session.id # null
          IN /\ store' = initialize_settled(result, read, registered)
             /\ listener' = (listener \/ (live /\ registered))
             /\ init' = InitializeDone(init.marker, GatewayAnswer(o), Query(result),
                                       IF live /\ ~registered THEN 2 ELSE 1)
    /\ stale' = FALSE
    /\ UNCHANGED <<cache, cred, so, eso, rs, sbc, handlers, outOfOrder, calls, external>>
    /\ UNCHANGED <<guard, login, script, context>>

\* ------------------------------------------------------ signIn and signUp
SignInOutcomes ==
    Offered({o \in OkOutcomes : o.session.id # null} \cup ErrOutcomes \cup ThrowOutcomes)
\* A sign-up that awaits the e-mail confirmation answers without a session.
SignUpOutcomes == Offered(OkOutcomes \cup ErrOutcomes \cup ThrowOutcomes)

\* Faulty variant: the failure is returned but not recorded in the state.
credentials_failed_noError(error) == Unauthenticated(NoError)

\* The state signIn() / signUp() set when the facade returns an error.
credentials_failed(error) == Unauthenticated(error)

\* A signIn() / signUp() call: suspended at the gateway request, suspended at
\* the facade's setBusinessContext, or returned (gateway: the kind of the
\* gateway's answer, ret: the error returned to the caller).
Credentials(action, hang) == [pc |-> "gateway", action |-> action, hang |-> hang]
CredentialsContext(businessId) == [pc |-> "setContext", businessId |-> businessId]
CredentialsDone(action, gateway, ret) ==
    [pc |-> "done", action |-> action, gateway |-> gateway, ret |-> ret]

\* signIn(email, password) up to the gateway request of auth.signIn().
signIn ==
    /\ Callable(cred)
    /\ calls' = calls + 1
    /\ Set(Authenticating)
    /\ \E hang \in Hangs : cred' = Credentials("signIn", hang)
    /\ UNCHANGED <<cache, listener, init, so, eso, rs, sbc, handlers, outOfOrder,
                   external>>
    /\ UNCHANGED <<guard, login, script, context>>

\* signUp(email, password) up to the gateway request of auth.signUp().
signUp ==
    /\ Callable(cred)
    /\ calls' = calls + 1
    /\ Set(Authenticating)
    /\ \E hang \in Hangs : cred' = Credentials("signUp", hang)
    /\ UNCHANGED <<cache, listener, init, so, eso, rs, sbc, handlers, outOfOrder,
                   external>>
    /\ UNCHANGED <<guard, login, script, context>>

\* The gateway answers the credentials.  A failure is set and returned (the
\* finished call keeps the gateway's answer and what it returned).  On a
\* success the gateway notifies the subscribers of the new session; auth.signIn
\* then awaits setBusinessContext for a business_id of the metadata, and the
\* store returns {error: null} without a write.
credentials_gateway ==
    /\ cred.pc = "gateway"
    /\ ~cred.hang
    /\ \E o \in IF cred.action = "signIn" THEN SignInOutcomes ELSE SignUpOutcomes :
          LET result == auth_credentials(o)
          IN IF result.error # NoError
             THEN /\ Set(credentials_failed(result.error))
                  /\ cred' = CredentialsDone(cred.action, o.kind, result.error)
                  /\ UNCHANGED <<handlers, outOfOrder>>
             ELSE /\ IF result.session.id # null
                     THEN ArriveSignedIn(result.session)
                     ELSE UNCHANGED <<store, stale, handlers, outOfOrder>>
                  /\ cred' = IF cred.action = "signIn" /\ result.session.meta # null
                             THEN CredentialsContext(result.session.meta)
                             ELSE CredentialsDone(cred.action, "ok", NoError)
    /\ UNCHANGED <<cache, listener, init, so, eso, rs, sbc, calls, external>>
    /\ UNCHANGED <<guard, login, script, context>>

\* auth.signIn() resumes after `await setBusinessContext(businessId)`:
\* {success: false} is logged; a raise lands in the facade's catch, which
\* returns it as an error.
signIn_setContext ==
    /\ cred.pc = "setContext"
    /\ \E r \in Store("auth.signIn", cache, cred.businessId) :
          /\ cache' = r.cache
          /\ IF r.r = "throw"
             THEN /\ Set(credentials_failed(AuthError(ResolverMessage, 500)))
                  /\ cred' = CredentialsDone("signIn", "ok", AuthError(ResolverMessage, 500))
             ELSE /\ cred' = CredentialsDone("signIn", "ok", NoError)
                  /\ UNCHANGED <<store, stale>>
    /\ UNCHANGED <<listener, init, so, eso, rs, sbc, handlers, outOfOrder, calls,
                   external>>
    /\ UNCHANGED <<guard, login, script, context>>

\* ----------------------------------------------------------------- signOut
\* The race of the gateway sign-out against the 2000 ms timer settles with
\* the gateway's answer or, for a gateway that hangs, with the timer.
SignOutOutcomes ==
    Offered({Outcome("ok", NoSession, NoError, null)} \cup ErrOutcomes \cup ThrowOutcomes
                \cup {HangOutcome})

\* What signOut() throws: an Error with this message.
Thrown(message) == AuthError(message, NoStatus)

\* signOut() past auth.signOut(): in the emergency cleanup of its catch, or
\* settled.  gateway: the gateway's answer; facade: the error auth.signOut()
\* returned; ret: the error signOut() throws, NoError when it resolves.
SignOutEmergency(gateway, facade, ret) ==
    [pc |-> "emergency", gateway |-> gateway, facade |-> facade, ret |-> ret]
SignOutDone(gateway, facade, ret) ==
    [pc |-> "done", gateway |-> gateway, facade |-> facade, ret |-> ret]

\* signOut() up to its first `await businessContext.clearBusinessContext()`.
signOut ==
    /\ Callable(so)
    /\ calls' = calls + 1
    /\ IF store.status = "authenticated"
       THEN Set(SigningOut(store))
       ELSE UNCHANGED <<store, stale>>
    /\ so' = At("clear")
    /\ UNCHANGED <<cache, listener, init, cred, eso, rs, sbc, handlers, outOfOrder,
                   external>>
    /\ UNCHANGED <<guard, login, script, context>>

\* The first clear settles: signOut() calls auth.signOut(), which awaits
\* clearBusinessContext again; a raise goes to the emergency cleanup.
signOut_clear ==
    /\ so.pc = "clear"
    /\ \E r \in Clear("signOut", cache) :
          /\ cache' = r.cache
          /\ so' = IF r.r = "throw"
                   THEN SignOutEmergency(NoRequest, NoError, Thrown(ResolverMessage))
                   ELSE At("facadeClear")
    /\ UNCHANGED <<store, stale, listener, init, cred, eso, rs, sbc, handlers,
                   outOfOrder, calls, external>>
    /\ UNCHANGED <<guard, login, script, context>>

\* Faulty variant: auth.signOut() issues the gateway sign-out without clearing
\* the business context itself.
signOut_facadeClear_skipClear ==
    /\ so.pc = "facadeClear"
    /\ so' = At("gateway")
    /\ UNCHANGED <<store, stale, cache, listener, init, cred, eso, rs, sbc, handlers,
                   outOfOrder, calls, external>>
    /\ UNCHANGED <<guard, login, script, context>>

\* auth.signOut() resumes after its clear and issues the gateway sign-out,
\* raced against the timer.  A raise of the clear is returned as an error by
\* the facade's outer catch: the store sets it and throws.
signOut_facadeClear ==
    /\ so.pc = "facadeClear"
    /\ \E r \in Clear("auth.signOut", cache) :
          /\ cache' = r.cache
          /\ IF r.r = "throw"
             THEN /\ Set(Unauthenticated(AuthError(ResolverMessage, 500)))
                  /\ so' = SignOutEmergency(NoRequest, AuthError(ResolverMessage, 500),
                                           Thrown(ResolverMessage))
             ELSE /\ so' = At("gateway")
                  /\ UNCHANGED <<store, stale>>
    /\ UNCHANGED <<listener, init, cred, eso, rs, sbc, handlers, outOfOrder, calls,
                   external>>
    /\ UNCHANGED <<guard, login, script, context>>

\* The race settles.  A returned error is set and thrown into the catch; any
\* other outcome sets 'unauthenticated' and resolves.  A gateway success also
\* notifies the subscribers of the ended session.
signOut_gateway ==
    /\ so.pc = "gateway"
    /\ \E o \in SignOutOutcomes :
          LET error == auth_signOut(o)
          IN IF error # NoError
             THEN /\ Set(Unauthenticated(error))
                  /\ so' = SignOutEmergency(GatewayAnswer(o), error, Thrown(error.message))
                  /\ UNCHANGED handlers
             ELSE /\ Set(Unauthenticated(NoError))
                  /\ so' = SignOutDone(GatewayAnswer(o), NoError, NoError)
                  /\ IF o.kind = "ok" THEN ArriveSignedOut ELSE UNCHANGED handlers
    /\ UNCHANGED <<cache, listener, init, cred, eso, rs, sbc, outOfOrder, calls,
                   external>>
    /\ UNCHANGED <<guard, login, script, context>>

\* The emergency cleanup of signOut()'s catch: clear, set 'unauthenticated',
\* and rethrow; a raise of the clear skips the set.
signOut_emergency ==
    /\ so.pc = "emergency"
    /\ \E r \in Clear("emergency", cache) :
          /\ cache' = r.cache
          /\ IF r.r = "throw"
             THEN UNCHANGED <<store, stale>>
             ELSE Set(Unauthenticated(NoError))
    /\ so' = SignOutDone(so.gateway, so.facade, so.ret)
    /\ UNCHANGED <<listener, init, cred, eso, rs, sbc, handlers, outOfOrder, calls,
                   external>>
    /\ UNCHANGED <<guard, login, script, context>>

\* --------------------------------------------------------- enhancedSignOut
\* The cleanup routine (enhancedLogout) reports success, returns an error or
\* raises; it has cleared the cached business id or not.
CleanupOutcomes ==
    {Outcome("ok", NoSession, NoError, null)} \cup ErrOutcomes \cup ThrowOutcomes

\* The config of an enhanced sign-out, as far as navigation goes:
\* {redirectToLogin?, redirectUrl?}.
Config(redirectToLogin, redirectUrl) ==
    [redirectToLogin |-> redirectToLogin, redirectUrl |-> redirectUrl]
Configs == {Config(FALSE, null), Config(TRUE, null), Config(TRUE, "/goodbye")}

\* The configs a call is made with: any of them where both machines sign
\* out side by side, none with a redirect where the store runs alone.
OfferedConfigs == IF context.mounted THEN Configs ELSE {Config(FALSE, null)}

\* Where the cleanup routine has navigated when it settles (null: nowhere).
\* With redirectToLogin a routine that succeeds has navigated to the
\* configured URL, '/login' without one; a routine that fails has or has not.
RoutineNavigation(config, o) ==
    LET target == IF config.redirectUrl # null THEN config.redirectUrl ELSE "/login"
    IN IF ~config.redirectToLogin THEN {null}
       ELSE IF o.kind = "ok" THEN {target}
       ELSE {null, target}

\* An enhanced sign-out awaiting auth.enhancedSignOut(config), in its
\* emergency cleanup, and returned.  cleanup: how the routine settled;
\* navigated: the URL navigated to so far (null: none); ret: the error
\* returned.
Cleanup(config) == [pc |-> "cleanup", config |-> config]
Emergency(config, cleanup, navigated, ret) ==
    [pc |-> "emergency", config |-> config, cleanup |-> cleanup,
     navigated |-> navigated, ret |-> ret]
EnhancedDone(config, cleanup, navigated, ret) ==
    [pc |-> "done", config |-> config, cleanup |-> cleanup,
     navigated |-> navigated, ret |-> ret]

\* enhancedSignOut(config) up to `await auth.enhancedSignOut(config)`.
enhancedSignOut ==
    /\ Callable(eso)
    /\ calls' = calls + 1
    /\ IF store.status = "authenticated"
       THEN Set(SigningOut(store))
       ELSE UNCHANGED <<store, stale>>
    /\ \E config \in OfferedConfigs : eso' = Cleanup(config)
    /\ UNCHANGED <<cache, listener, init, cred, so, rs, sbc, handlers, outOfOrder,
                   external>>
    /\ UNCHANGED <<guard, login, script, context>>

\* The facade returns the routine's result: on an error the store starts its
\* emergency cleanup, otherwise it sets 'unauthenticated'.
enhancedSignOut_cleanup ==
    /\ eso.pc = "cleanup"
    /\ cache' \in {cache, null}
    /\ \E o \in CleanupOutcomes :
          \E navigated \in RoutineNavigation(eso.config, o) :
             LET error == auth_enhancedSignOut(o)
             IN IF error # NoError
                THEN /\ eso' = Emergency(eso.config, o.kind, navigated, error)
                     /\ UNCHANGED <<store, stale>>
                ELSE /\ eso' = EnhancedDone(eso.config, o.kind, navigated, NoError)
                     /\ Set(Unauthenticated(NoError))
    /\ UNCHANGED <<listener, init, cred, so, rs, sbc, handlers, outOfOrder, calls,
                   external>>
    /\ UNCHANGED <<guard, login, script, context>>

\* The emergency cleanup: clear and set 'unauthenticated'; a raise of the
\* clear skips the set.  The result is returned either way; the store itself
\* navigates nowhere.
enhancedSignOut_emergency ==
    /\ eso.pc = "emergency"
    /\ \E r \in ClearResults(cache) :
          /\ cache' = r.cache
          /\ IF r.r = "throw"
             THEN UNCHANGED <<store, stale>>
             ELSE Set(Unauthenticated(NoError))
    /\ eso' = EnhancedDone(eso.config, eso.cleanup, eso.navigated, eso.ret)
    /\ UNCHANGED <<listener, init, cred, so, rs, sbc, handlers, outOfOrder, calls,
                   external>>
    /\ UNCHANGED <<guard, login, script, context>>

\* ---------------------------------------------------------- refreshSession
\* A refreshSession() past its session query: suspended at a clear, or
\* returned (query: what the session query answered).
Refresh(pc, query) == [pc |-> pc, query |-> query]
RefreshDone(query, ret) == [pc |-> "done", query |-> query, ret |-> ret]

\* Faulty variant: the re-check goes through 'authenticating' as a
\* credential operation does.
refreshSession_authenticating ==
    /\ Callable(rs)
    /\ calls' = calls + 1
    /\ Set(Authenticating)
    /\ \E hang \in BOOLEAN : rs' = Request("getSession", hang)
    /\ UNCHANGED <<cache, listener, init, cred, so, eso, sbc, handlers,
                   outOfOrder, external>>
    /\ UNCHANGED <<guard, login, script, context>>

\* refreshSession() up to `await auth.getSession()`.
refreshSession ==
    /\ Callable(rs)
    /\ calls' = calls + 1
    /\ \E hang \in BOOLEAN : rs' = Request("getSession", hang)
    /\ UNCHANGED <<store, stale, cache, listener, init, cred, so, eso, sbc, handlers,
                   outOfOrder, external>>
    /\ UNCHANGED <<guard, login, script, context>>

\* refreshSession() resumes with the answer (its error is not read): a live
\* session sets 'authenticated'; no session, or a raise of the cache read,
\* sets 'unauthenticated' and awaits clearBusinessContext.
refreshSession_getSession ==
    /\ rs.pc = "getSession"
    /\ ~rs.hang
    /\ \E o \in SessionOutcomes, read \in ReadResults(cache) :
          LET result == auth_getSession(o)
          IN IF result.session.id # null /\ read # "throw"
             THEN /\ Set(Authenticated(AuthUser(result.session.id, read), read))
                  /\ rs' = RefreshDone(Query(result), NoError)
             ELSE /\ Set(Unauthenticated(NoError))
                  /\ rs' = Refresh(IF result.session.id # null THEN "catchClear"
                                   ELSE "clear", Query(result))
    /\ UNCHANGED <<cache, listener, init, cred, so, eso, sbc, handlers, outOfOrder,
                   calls, external>>
    /\ UNCHANGED <<guard, login, script, context>>

\* The clear of the no-session branch settles; a raise lands in the catch,
\* which sets 'unauthenticated' and awaits clearBusinessContext again.
refreshSession_clear ==
    /\ rs.pc = "clear"
    /\ \E r \in ClearResults(cache) :
          /\ cache' = r.cache
          /\ IF r.r = "throw"
             THEN /\ Set(Unauthenticated(NoError))
                  /\ rs' = Refresh("catchClear", rs.query)
             ELSE /\ rs' = RefreshDone(rs.query, NoError)
                  /\ UNCHANGED <<store, stale>>
    /\ UNCHANGED <<listener, init, cred, so, eso, sbc, handlers, outOfOrder, calls,
                   external>>
    /\ UNCHANGED <<guard, login, script, context>>

\* The clear of the catch settles; a raise rejects refreshSession().
refreshSession_catchClear ==
    /\ rs.pc = "catchClear"
    /\ \E r \in ClearResults(cache) :
          /\ cache' = r.cache
          /\ rs' = RefreshDone(rs.query,
                               IF r.r = "throw" THEN Thrown(ResolverMessage) ELSE NoError)
    /\ UNCHANGED <<store, stale, listener, init, cred, so, eso, sbc, handlers,
                   outOfOrder, calls, external>>
    /\ UNCHANGED <<guard, login, script, context>>

\* ------------------------------------------------------ setBusinessContext
DefaultContextMessage == "Error al establecer el contexto del negocio"

\* setBusinessContext(businessId) up to `await businessContext.setBusinessContext`.
setBusinessContext ==
    /\ Callable(sbc)
    /\ calls' = calls + 1
    /\ \E businessId \in BusinessIds :
          sbc' = [pc |-> "setContext", businessId |-> businessId]
    /\ UNCHANGED <<store, stale, cache, listener, init, cred, so, eso, rs, handlers,
                   outOfOrder, external>>
    /\ UNCHANGED <<guard, login, script, context>>

\* What setBusinessContext() returns for the resolver's result: the result's
\* message (or the default one) for {success: false}, the default for a raise.
setBusinessContext_errors(r) ==
    IF r = "ok" THEN {NoError}
    ELSE IF r = "fail" THEN {Thrown(ResolverMessage), Thrown(DefaultContextMessage)}
    ELSE {Thrown(DefaultContextMessage)}

\* The resolver answers: on success an authenticated state takes the id.
setBusinessContext_setContext ==
    /\ sbc.pc = "setContext"
    /\ \E r \in SetResults(cache, sbc.businessId) :
          /\ cache' = r.cache
          /\ \E error \in setBusinessContext_errors(r.r) : sbc' = Done(error)
          /\ IF r.r = "ok" /\ store.status = "authenticated" /\ store.user # NoUser
             THEN Set(WithBusiness(store, sbc.businessId))
             ELSE UNCHANGED <<store, stale>>
    /\ UNCHANGED <<listener, init, cred, so, eso, rs, handlers, outOfOrder, calls,
                   external>>
    /\ UNCHANGED <<guard, login, script, context>>

\* ---------------------------------------------------------- specification
\* A view calls an action.
Call ==
    \/ initialize
    \/ signIn
    \/ signUp
    \/ signOut
    \/ enhancedSignOut
    \/ refreshSession
    \/ setBusinessContext

\* A suspended call or handler resumes: its awaited promise has settled.
Resume ==
    \/ initialize_getSession
    \/ credentials_gateway
    \/ signIn_setContext
    \/ signOut_clear
    \/ signOut_facadeClear
    \/ signOut_gateway
    \/ signOut_emergency
    \/ enhancedSignOut_cleanup
    \/ enhancedSignOut_emergency
    \/ refreshSession_getSession
    \/ refreshSession_clear
    \/ refreshSession_catchClear
    \/ setBusinessContext_setContext
    \/ handler_setContext
    \/ handler_facadeClear
    \/ handler_storeClear

Next == Call \/ Resume \/ ExternalEvent

Spec == Init /\ [][Next]_vars

\* The event loop runs every continuation whose promise has settled.
FairSpec == Spec /\ WF_vars(Resume)

\* ---------------------------------------------- internal state transitions
\* The arguments the internal transitions are called with.
ErrorArguments == {NoError} \cup GatewayErrors
UserArguments == {AuthUser(id, biz) : id \in Users, biz \in BusinessIds \cup {null}}

\* Faulty variant: only status, error and isLoading are written; the store,
\* which merges a partial write, keeps user and businessId.
_setUnauthenticated_merged(error) ==
    /\ calls < MaxCalls
    /\ calls' = calls + 1
    /\ Set([store EXCEPT !.status = "unauthenticated", !.error = error,
                         !.isLoading = FALSE])
    /\ UNCHANGED <<cache, listener, init, cred, so, eso, rs, sbc, handlers, outOfOrder,
                   external>>
    /\ UNCHANGED <<guard, login, script, context>>

\* _setUnauthenticated(error?): one synchronous set().
_setUnauthenticated(error) ==
    /\ calls < MaxCalls
    /\ calls' = calls + 1
    /\ Set(Unauthenticated(error))
    /\ UNCHANGED <<cache, listener, init, cred, so, eso, rs, sbc, handlers, outOfOrder,
                   external>>
    /\ UNCHANGED <<guard, login, script, context>>

\* _setAuthenticated(user, businessId?): one synchronous set().
_setAuthenticated(user, businessId) ==
    /\ calls < MaxCalls
    /\ calls' = calls + 1
    /\ Set(Authenticated(user, businessId))
    /\ UNCHANGED <<cache, listener, init, cred, so, eso, rs, sbc, handlers, outOfOrder,
                   external>>
    /\ UNCHANGED <<guard, login, script, context>>

\* The store with its internal transitions called from outside (as the unit
\* tests do) between the steps of the public actions.
Internal ==
    \/ \E error \in ErrorArguments : _setUnauthenticated(error)
    \/ \E user \in UserArguments, businessId \in BusinessIds \cup {null} :
          _setAuthenticated(user, businessId)

InternalNext == Next \/ Internal

InternalSpec == Init /\ [][InternalNext]_vars

\* ---------------------------------------------------- an action repeated
\* No call is suspended at an await and no change-event handler is pending.
Quiescent ==
    /\ \A c \in {init, cred, so, eso, rs, sbc} : c.pc \in {"idle", "done"}
    /\ handlers = <<>>

\* The scripts: signIn, signUp or signOut, one answer of the gateway to it
\* and one answer of the resolver at each call site the action reaches.
Scripts ==
    LET failures == ErrOutcomes \cup ThrowOutcomes
        signedIn == {Outcome("ok", s, NoError, null) :
                        s \in [id : Users, meta : MetadataIds \cup {null}]}
        signedOut == Outcome("ok", NoSession, NoError, null)
    IN {Script(a, o, Resolves.clear, s) :
            a \in {"signIn"}, o \in signedIn \cup failures, s \in [SetSites -> SetAnswers]}
       \cup {Script(a, o, Resolves.clear, s) :
            a \in {"signUp"}, o \in signedIn \cup {signedOut} \cup failures,
            s \in [SetSites -> SetAnswers]}
       \cup {Script(a, o, c, Resolves.set) :
            a \in {"signOut"}, o \in {signedOut, HangOutcome} \cup failures,
            c \in [ClearSites -> ClearAnswers]}

\* A settled state the store can be in when a view calls the action: the
\* initial one, signed out, or signed in with the cached business id.
ReplayInit ==
    /\ cache \in BusinessIds \cup {null}
    /\ listener \in BOOLEAN
    /\ store \in {Unauthenticated(NoError)}
                    \cup {Authenticated(AuthUser(u, cache), cache) : u \in Users}
                    \cup (IF listener THEN {} ELSE {InitialState})
    /\ init = Idle /\ cred = Idle /\ so = Idle /\ eso = Idle /\ rs = Idle /\ sbc = Idle
    /\ handlers = <<>>
    /\ outOfOrder = FALSE
    /\ stale = FALSE
    /\ calls = 0
    /\ external = 0
    /\ guard = Unmounted
    /\ login = NoLogin
    /\ script \in Scripts
    /\ context = NoContext

\* The view calls the action, and calls it again once the first call and
\* everything it started have settled.
ReplayCall ==
    /\ Quiescent
    /\ calls = 0 \/ (calls = 1 /\ script.first # NoSummary)
    /\ \/ script.action = "signIn" /\ signIn
       \/ script.action = "signUp" /\ signUp
       \/ script.action = "signOut" /\ signOut

\* The state the first call settled in.
ReplaySettled ==
    /\ Quiescent
    /\ calls = 1
    /\ script.first = NoSummary
    /\ script' = [script EXCEPT !.first = Summary(store)]
    /\ UNCHANGED <<storeVars, guard, login, context>>

ReplayResume ==
    \/ credentials_gateway
    \/ signIn_setContext
    \/ signOut_clear
    \/ signOut_facadeClear
    \/ signOut_gateway
    \/ signOut_emergency
    \/ handler_setContext
    \/ handler_facadeClear
    \/ handler_storeClear

ReplayNext == ReplayCall \/ ReplaySettled \/ ReplayResume

ReplaySpec == ReplayInit /\ [][ReplayNext]_vars

\* ------------------------------------------------------- the route guards
\* A mounted ProtectedRoute, store-based (it resolves the business context
\* itself) or context-based (it reads the useBusinessContext hook).  A render
\* is part of the step that changes the state it reads; the effects of a
\* render run as a step of their own, before any further change.
MaxRequests == 4
MaxAuthChanges == 3

Variants == {"store", "context"}

\* What useAuth() hands to a guard.
AuthView(user, isLoading, isInitialized) ==
    [user |-> user, isLoading |-> isLoading, isInitialized |-> isInitialized]
AuthViews ==
    {AuthView(null, TRUE, FALSE), AuthView(null, FALSE, TRUE), AuthView(null, TRUE, TRUE)}
        \cup {AuthView(u, l, TRUE) : u \in Users, l \in BOOLEAN}

\* getCurrentBusinessIdAsync({autoSelect}) resolves with an id or with null,
\* or rejects with an Error whose message is 'TIMEOUT' or another one.
ResolveOutcomes == BusinessIds \cup {null, "TIMEOUT", ResolverMessage}

\* The state of useBusinessContext: useState(null), useState(true), useState(null).
HookState(businessId, isLoading, error) ==
    [businessId |-> businessId, isLoading |-> isLoading, error |-> error]

\* router.push: `reason` is 'login' or the reason of /register/business;
\* basis: the outcome of the latest resolution completed for the user of the
\* auth state at the push, "none" without one.
NoRedirect == [reason |-> "none", basis |-> "none"]
Basis(completed, user) == IF user = null THEN "none" ELSE completed[user]
Push(g, reason) ==
    [g EXCEPT !.redirect = [reason |-> reason, basis |-> Basis(g.completed, g.auth.user)]]

\* The guard as mounted: the first render has run, its effects have not.
\* closure: the values the last render's effects see.  completed: per user,
\* the outcome of the latest resolution that settled.
Mounted(variant, requireBusinessContext) ==
    [variant |-> variant,
     requireBusinessContext |-> requireBusinessContext,
     auth |-> AuthView(null, TRUE, FALSE),
     isBusinessReady |-> ~requireBusinessContext,
     hook |-> HookState(null, TRUE, null),
     closure |-> [auth |-> AuthView(null, TRUE, FALSE), hook |-> HookState(null, TRUE, null)],
     effects |-> [guard |-> TRUE, hook |-> variant = "context"],
     requests |-> <<>>,
     issued |-> 0,
     changes |-> 0,
     redirect |-> NoRedirect,
     completed |-> [u \in Users |-> "none"]]

\* What the guard's render returns.
View(g) ==
    IF g.variant = "store"
    THEN IF g.auth.isLoading \/ (g.requireBusinessContext /\ ~g.isBusinessReady)
         THEN "loading"
         ELSE IF g.auth.user = null \/ (g.requireBusinessContext /\ ~g.isBusinessReady)
         THEN "nothing"
         ELSE "children"
    ELSE LET businessId == IF g.requireBusinessContext THEN g.hook.businessId ELSE null
             isBusinessLoading == g.requireBusinessContext /\ g.hook.isLoading
         IN IF g.auth.isLoading \/ (g.requireBusinessContext /\ isBusinessLoading)
            THEN "loading"
            ELSE IF g.auth.user = null \/ (g.requireBusinessContext /\ businessId = null)
            THEN "nothing"
            ELSE "children"

\* The dependency list of the guard's effect.
GuardDeps(g, auth, hook) ==
    IF g.variant = "store"
    THEN <<auth.user, auth.isLoading>>
    ELSE <<auth.user, auth.isLoading,
           g.requireBusinessContext /\ hook.isLoading,
           IF g.requireBusinessContext THEN hook.businessId ELSE null,
           IF g.requireBusinessContext THEN hook.error ELSE null>>

\* A render of a guard whose earlier effects have run: the guard's effect is
\* due when a dependency changed; the hook's effect is due after every render,
\* for the context-based guard passes a new options object on each render.
Render(g) ==
    [g EXCEPT !.closure = [auth |-> g.auth, hook |-> g.hook],
              !.effects = [guard |-> GuardDeps(g, g.auth, g.hook)
                                       # GuardDeps(g, g.closure.auth, g.closure.hook),
                           hook |-> g.variant = "context"]]

\* The guard after a step that ran its effects or a promise callback: a
\* changed state is rendered, an unchanged one leaves no effect due.
Settle(before, g) ==
    IF g.hook # before.hook \/ g.isBusinessReady # before.isBusinessReady
    THEN Render([g EXCEPT !.effects = [guard |-> FALSE, hook |-> FALSE]])
    ELSE [g EXCEPT !.effects = [guard |-> FALSE, hook |-> FALSE]]

\* A resolution in flight; mounted: the flag of the effect run that started it.
Resolution(user) == [user |-> user, mounted |-> TRUE]
Start(g, user) ==
    [g EXCEPT !.requests = Append(g.requests, Resolution(user)), !.issued = g.issued + 1]

\* The effect of useBusinessContext: the cleanup of the run before, then
\* loadBusinessContext up to its await.
hook_effect(g) ==
    LET c == g.closure
        cleaned == [g EXCEPT !.requests =
                       [k \in DOMAIN g.requests |-> [g.requests[k] EXCEPT !.mounted = FALSE]]]
    IN IF ~c.auth.isInitialized \/ c.auth.user = null
       THEN [cleaned EXCEPT !.hook.isLoading = FALSE]
       ELSE Start([cleaned EXCEPT !.hook.isLoading = TRUE, !.hook.error = null],
                  c.auth.user)

\* The effect of the store-based guard.
store_guard_effect(g) ==
    LET c == g.closure
    IN IF c.auth.isLoading THEN g
       ELSE IF c.auth.user = null THEN Push(g, "login")
       ELSE IF g.requireBusinessContext THEN Start(g, c.auth.user)
       ELSE g

\* The effect of the context-based guard, on the values of its render.
context_guard_effect(g) ==
    LET c == g.closure
    IN IF c.auth.isLoading \/ (g.requireBusinessContext /\ c.hook.isLoading) THEN g
       ELSE IF c.auth.user = null THEN Push(g, "login")
       ELSE IF ~g.requireBusinessContext THEN g
       ELSE IF c.hook.error # null
       THEN Push(g, IF c.hook.error = "TIMEOUT" THEN "timeout" ELSE "error")
       ELSE IF c.hook.businessId = null THEN Push(g, "no-business")
       ELSE g

\* The effects of the last render, in the order of their hooks.
effects_run(g) ==
    LET afterHook == IF g.effects.hook THEN hook_effect(g) ELSE g
    IN IF ~g.effects.guard THEN afterHook
       ELSE IF g.variant = "store" THEN store_guard_effect(afterHook)
       ELSE context_guard_effect(afterHook)

\* The callbacks of a resolution that settled with `outcome`.
store_guard_resolved(g, outcome) ==
    IF outcome \in BusinessIds THEN [g EXCEPT !.isBusinessReady = TRUE]
    ELSE IF outcome = "TIMEOUT" THEN Push(g, "timeout")
    ELSE IF outcome = null THEN Push(g, "no-business")
    ELSE Push(g, "error")

hook_resolved(g, mounted, outcome) ==
    IF ~mounted THEN g
    ELSE IF outcome \in BusinessIds \cup {null}
    THEN [g EXCEPT !.hook.businessId = outcome, !.hook.isLoading = FALSE]
    ELSE [g EXCEPT !.hook.error = outcome, !.hook.isLoading = FALSE]

\* The auth state changes and the guard renders.
AuthChanges ==
    /\ guard.variant # "none"
    /\ ~guard.effects.guard /\ ~guard.effects.hook
    /\ guard.changes < MaxAuthChanges
    /\ \E auth \in AuthViews \ {guard.auth} :
          guard' = Render([guard EXCEPT !.auth = auth, !.changes = guard.changes + 1])
    /\ UNCHANGED <<storeVars, login, script, context>>

\* The effects of the last render run.
RunEffects ==
    /\ guard.variant # "none"
    /\ guard.effects.guard \/ guard.effects.hook
    /\ effects_run(guard).issued <= MaxRequests
    /\ guard' = Settle(guard, effects_run(guard))
    /\ UNCHANGED <<storeVars, login, script, context>>

\* A resolution settles.
Resolve ==
    /\ guard.variant # "none"
    /\ ~guard.effects.guard /\ ~guard.effects.hook
    /\ \E i \in DOMAIN guard.requests, outcome \in ResolveOutcomes :
          LET request == guard.requests[i]
              g == [guard EXCEPT !.requests = Remove(guard.requests, i),
                                 !.completed[request.user] = outcome]
          IN guard' = Settle(guard, IF guard.variant = "store"
                                    THEN store_guard_resolved(g, outcome)
                                    ELSE hook_resolved(g, request.mounted, outcome))
    /\ UNCHANGED <<storeVars, login, script, context>>

GuardInit ==
    /\ store = InitialState
    /\ cache = null
    /\ listener = FALSE
    /\ init = Idle /\ cred = Idle /\ so = Idle /\ eso = Idle /\ rs = Idle /\ sbc = Idle
    /\ handlers = <<>>
    /\ outOfOrder = FALSE
    /\ stale = FALSE
    /\ calls = 0
    /\ external = 0
    /\ guard \in {Mounted(v, r) : v \in Variants, r \in BOOLEAN}
    /\ login = NoLogin
    /\ script = Free
    /\ context = NoContext

GuardNext == AuthChanges \/ RunEffects \/ Resolve

GuardSpec == GuardInit /\ [][GuardNext]_vars


\* ---------------------------------------------------------- the login view
\* The LoginForm of the login page.  Its effect (deps: router, searchParams)
\* runs after the mount and after every change of the search params or the
\* router; the cleanup of the previous run precedes the new run.  The two
\* refs are shared by all runs of the effect and all checks.
MaxEffectRuns == 2

\* A checkAuthentication() suspended at the race of auth.getSession() against
\* the 5000 ms timer.  cleanedUp: the cleanup of the effect run that started
\* it has run.
Check(hang) == [pc |-> "race", hang |-> hang, cleanedUp |-> FALSE]

\* A check that returned.  query: what the race settled with; lapsed: its
\* effect had been cleaned up by then; redirects: it assigned
\* window.location.href; wrote: it called setCheckingAuth(false).
CheckDone(query, lapsed, redirects, wrote) ==
    [pc |-> "done", query |-> query, lapsed |-> lapsed, redirects |-> redirects,
     wrote |-> wrote]

\* The form as it mounts: useState(true), useRef(false), useRef(false).
LoginForm ==
    [mounted |-> TRUE, unmounted |-> FALSE, checkingAuth |-> TRUE,
     cancelledRef |-> FALSE, hasRedirectedRef |-> FALSE, checks |-> <<>>,
     runs |-> 0, redirects |-> 0]

\* The effect's cleanup: cancelledRef.current = true.
login_cleanup(l) ==
    [l EXCEPT !.cancelledRef = TRUE,
              !.checks = [k \in DOMAIN l.checks |->
                             IF l.checks[k].pc = "race"
                             THEN [l.checks[k] EXCEPT !.cleanedUp = TRUE]
                             ELSE l.checks[k]]]

\* A run of the effect.  It resets cancelledRef; after a redirect, for a
\* logout and without the local marker the form is shown at once; with the
\* marker checkAuthentication() runs to its await.
login_effect ==
    /\ login.mounted /\ ~login.unmounted
    /\ login.runs < MaxEffectRuns
    /\ \E isLogout \in BOOLEAN, likelyAuthenticated \in BOOLEAN, hang \in BOOLEAN :
          LET cleaned == IF login.runs > 0 THEN login_cleanup(login) ELSE login
              l == [cleaned EXCEPT !.cancelledRef = FALSE, !.runs = @ + 1]
          IN login' = IF l.hasRedirectedRef \/ isLogout \/ ~likelyAuthenticated
                      THEN [l EXCEPT !.checkingAuth = FALSE]
                      ELSE [l EXCEPT !.checks = Append(@, Check(hang))]
    /\ UNCHANGED <<storeVars, guard, script, context>>

\* The form unmounts: the cleanup of the last run.
login_unmount ==
    /\ login.mounted /\ ~login.unmounted
    /\ login.runs > 0
    /\ login' = [login_cleanup(login) EXCEPT !.unmounted = TRUE]
    /\ UNCHANGED <<storeVars, guard, script, context>>

\* Faulty variant: without the timer a session query that never answers
\* never lets the check go on.
check_settles_noTimer(check) == ~check.hang

\* Promise.race([auth.getSession(), timeoutPromise]) settles: with the
\* query's answer, or with the timer's rejection after 5000 ms.
check_settles(check) == TRUE

\* Faulty variant: a query that failed or timed out redirects as a live
\* session does, on the word of the local marker.
check_redirects_onMarker(query, cancelled, hasRedirected) ==
    query # "empty" /\ ~cancelled /\ ~hasRedirected

\* Faulty variant: hasRedirectedRef is not read before the redirect.
check_redirects_again(query, cancelled, hasRedirected) ==
    query = "live" /\ ~cancelled

\* Whether a check whose race settled with `query` redirects: not when
\* cancelled, not on an error or the timeout, and with a session only when no
\* check has redirected yet.
check_redirects(query, cancelled, hasRedirected) ==
    query = "live" /\ ~cancelled /\ ~hasRedirected

\* The race of a check settles and checkAuthentication() runs to its end,
\* the finally block included.
login_settle ==
    /\ \E i \in DOMAIN login.checks :
          LET check == login.checks[i]
          IN /\ check.pc = "race"
             /\ check_settles(check)
             /\ \E o \in SessionOutcomes :
                   LET query == IF check.hang THEN "timeout" ELSE Query(auth_getSession(o))
                       cancelled == login.cancelledRef
                       redirects == check_redirects(query, cancelled, login.hasRedirectedRef)
                       hasRedirected == login.hasRedirectedRef \/ redirects
                       writes == ~cancelled /\ ~hasRedirected
                   IN login' = [login EXCEPT
                                   !.hasRedirectedRef = hasRedirected,
                                   !.redirects = IF redirects THEN @ + 1 ELSE @,
                                   !.checkingAuth = IF writes /\ ~login.unmounted
                                                    THEN FALSE ELSE @,
                                   !.checks[i] = CheckDone(query, check.cleanedUp, redirects,
                                                           writes)]
    /\ UNCHANGED <<storeVars, guard, script, context>>

LoginInit ==
    /\ store = InitialState
    /\ cache \in BusinessIds \cup {null}
    /\ listener = FALSE
    /\ init = Idle /\ cred = Idle /\ so = Idle /\ eso = Idle /\ rs = Idle /\ sbc = Idle
    /\ handlers = <<>>
    /\ outOfOrder = FALSE
    /\ stale = FALSE
    /\ calls = 0
    /\ external = 0
    /\ guard = Unmounted
    /\ login = LoginForm
    /\ script = Free
    /\ context = NoContext

LoginNext == login_effect \/ login_unmount \/ login_settle

LoginSpec == LoginInit /\ [][LoginNext]_vars

\* A settled race is a macrotask or microtask the event loop runs.
LoginFairSpec == LoginSpec /\ WF_vars(login_settle)

\* The login page under the AuthProvider, whose effect calls initialize().
BootNext == LoginNext \/ initialize \/ initialize_getSession

BootSpec == LoginInit /\ [][BootNext]_vars

\* ------------------------------------- the context-based enhancedSignOut
\* The AuthProvider of auth-context.tsx with a signed-in user: useState user
\* and isLoading, and its enhancedSignOut call.
Provider(user) == [mounted |-> TRUE, user |-> user, isLoading |-> FALSE, eso |-> Idle]

\* enhancedSignOut(config) of the context up to `await auth.enhancedSignOut`.
context_enhancedSignOut ==
    /\ context.mounted
    /\ Callable(context.eso)
    /\ calls' = calls + 1
    /\ \E config \in OfferedConfigs :
          context' = [context EXCEPT !.isLoading = TRUE, !.eso = Cleanup(config)]
    /\ UNCHANGED <<store, stale, cache, listener, init, cred, so, eso, rs, sbc, handlers,
                   outOfOrder, external>>
    /\ UNCHANGED <<guard, login, script>>

\* The facade returns the routine's result: on an error the context starts
\* its emergency cleanup, otherwise it clears the user and, in the finally
\* block, isLoading.
context_enhancedSignOut_cleanup ==
    /\ context.mounted
    /\ context.eso.pc = "cleanup"
    /\ cache' \in {cache, null}
    /\ \E o \in CleanupOutcomes :
          \E navigated \in RoutineNavigation(context.eso.config, o) :
             LET error == auth_enhancedSignOut(o)
             IN context' =
                  IF error # NoError
                  THEN [context EXCEPT
                           !.eso = Emergency(context.eso.config, o.kind, navigated, error)]
                  ELSE [context EXCEPT
                           !.user = null, !.isLoading = FALSE,
                           !.eso = EnhancedDone(context.eso.config, o.kind, navigated,
                                                NoError)]
    /\ UNCHANGED <<store, stale, listener, init, cred, so, eso, rs, sbc, handlers,
                   outOfOrder, calls, external>>
    /\ UNCHANGED <<guard, login, script>>

\* The emergency cleanup of the context: clear, setUser(null), then, with
\* redirectToLogin, window.location.replace(config.redirectUrl || '/login');
\* a raise of the clear skips both.  The finally block clears isLoading and
\* the result is returned.
context_enhancedSignOut_emergency ==
    /\ context.mounted
    /\ context.eso.pc = "emergency"
    /\ \E r \in ClearResults(cache) :
          /\ cache' = r.cache
          /\ LET call == context.eso
                 redirectUrl == IF call.config.redirectUrl # null
                                THEN call.config.redirectUrl ELSE "/login"
                 navigated == IF r.r # "throw" /\ call.config.redirectToLogin
                              THEN redirectUrl ELSE call.navigated
             IN context' = [context EXCEPT
                               !.user = IF r.r = "throw" THEN @ ELSE null,
                               !.isLoading = FALSE,
                               !.eso = EnhancedDone(call.config, call.cleanup, navigated,
                                                    call.ret)]
    /\ UNCHANGED <<store, stale, listener, init, cred, so, eso, rs, sbc, handlers,
                   outOfOrder, calls, external>>
    /\ UNCHANGED <<guard, login, script>>

\* Both machines with a signed-in user, and their enhanced sign-outs.
EnhancedInit ==
    /\ cache \in BusinessIds \cup {null}
    /\ \E u \in Users :
          /\ store = Authenticated(AuthUser(u, cache), cache)
          /\ context = Provider(u)
    /\ listener = TRUE
    /\ init = Idle /\ cred = Idle /\ so = Idle /\ eso = Idle /\ rs = Idle /\ sbc = Idle
    /\ handlers = <<>>
    /\ outOfOrder = FALSE
    /\ stale = FALSE
    /\ calls = 0
    /\ external = 0
    /\ guard = Unmounted
    /\ login = NoLogin
    /\ script = Free

EnhancedNext ==
    \/ enhancedSignOut
    \/ enhancedSignOut_cleanup
    \/ enhancedSignOut_emergency
    \/ context_enhancedSignOut
    \/ context_enhancedSignOut_cleanup
    \/ context_enhancedSignOut_emergency

EnhancedSpec == EnhancedInit /\ [][EnhancedNext]_vars

\* ------------------------------------------------------------- properties
Transient == {"initializing", "authenticating", "signing-out"}

\* C1 (as stated): user is non-null if and only if status is 'authenticated'.
UserIffAuthenticated ==
    (store.user # NoUser) <=> (store.status = "authenticated")

\* C1 (amended): user is non-null if and only if status is 'authenticated' or
\* 'signing-out'; signOut and enhancedSignOut keep the user while signing out.
UserIffAuthenticatedOrSigningOut ==
    (store.user # NoUser) <=> (store.status \in {"authenticated", "signing-out"})

SigningOutWithUser == store.status = "signing-out" /\ store.user # NoUser

\* C2: isLoading is true if and only if status is 'initializing',
\* 'authenticating' or 'signing-out'.
IsLoadingIffTransient == store.isLoading <=> (store.status \in Transient)

SigningOutIsLoading ==
    store.status = "signing-out" /\ store.isLoading /\ so.pc = "clear"

\* C3: error is non-null only when status is 'unauthenticated'.
ErrorOnlyWhenUnauthenticated ==
    (store.error # NoError) => (store.status = "unauthenticated")

UnauthenticatedWithError ==
    store.status = "unauthenticated" /\ store.error # NoError

\* C4: every initialize() that awaits its session query eventually completes.
InitializeTerminates == (init.pc = "getSession") ~> (init.pc = "done" /\ ~store.isLoading)

\* C5: when signOut() resolves or throws, status is 'unauthenticated', user and
\* the store's businessId are null and the cached business id is null.
SignOutEndsUnauthenticated ==
    [][(so.pc # "done" /\ so'.pc = "done")
        => (/\ store'.status = "unauthenticated"
            /\ store'.user = NoUser
            /\ store'.businessId = null
            /\ cache' = null)]_vars

\* C6: when enhancedSignOut() returns, status is 'unauthenticated' with user null.
EnhancedSignOutEndsUnauthenticated ==
    [][(eso.pc # "done" /\ eso'.pc = "done")
        => (store'.status = "unauthenticated" /\ store'.user = NoUser)]_vars

\* C7: an initialize() that has returned has registered the change-event callback.
InitializeSubscribes == (init.pc = "done") => listener

\* C8: an initialize() whose session query answers after another operation
\* wrote the state does not write the state.
SupersededInitializeNeverWrites ==
    [][(init.pc = "getSession" /\ init'.pc = "done" /\ stale) => store' = store]_vars

\* C9: the handlers of the change events write the state in the order in which
\* the events arrived.
EventsAppliedInArrivalOrder == ~outOfOrder

\* A signIn() / signUp() that returned after the gateway rejected it.
Rejected(c) == c.pc = "done" /\ c.gateway \in {"err", "throw"}

\* C10: when the gateway rejects a signIn or signUp, the call ends with status
\* 'unauthenticated', user null and the state's error equal to the non-null
\* error it returns.
CredentialsFailureReported ==
    [][(cred.pc = "gateway" /\ Rejected(cred'))
        => (/\ store'.status = "unauthenticated"
            /\ store'.user = NoUser
            /\ store'.error # NoError
            /\ store'.error = cred'.ret)]_vars

CredentialsRejected ==
    /\ Rejected(cred)
    /\ store.status = "unauthenticated"
    /\ store.error = cred.ret
    /\ cred.ret # NoError

\* C11: after an initialize(), once signIn() has returned {error: null} and
\* everything it started has run, status is no longer 'authenticating'.
SignInLeavesAuthenticating ==
    (/\ init.pc = "done"
     /\ cred.pc = "done" /\ cred.action = "signIn" /\ cred.ret = NoError
     /\ Quiescent)
        => store.status # "authenticating"

\* C14: initialize() and refreshSession() never reject.
InitializeAndRefreshNeverReject ==
    /\ init.pc = "done" => init.ret = NoError
    /\ rs.pc = "done" => rs.ret = NoError

\* C15: when the gateway sign-out is issued, the cached business id is null.
ClearedBeforeGatewaySignOut ==
    [][(so.pc # "gateway" /\ so'.pc = "gateway") => cache' = null]_vars

GatewaySignOutIssued ==
    /\ so.pc = "gateway"
    /\ cache = null
    /\ store.status = "signing-out"
    /\ store.businessId # null

\* C16: when the gateway sign-out returned an error or raised, signOut()
\* rejects with that error's message, with the business context cleared and
\* the state 'unauthenticated'.
SignOutRejectsAfterCleanup ==
    [][(so.pc # "done" /\ so'.pc = "done" /\ so'.gateway.kind \in {"err", "throw"})
        => (/\ so'.ret # NoError
            /\ so'.ret.message = so'.gateway.message
            /\ cache' = null
            /\ store'.status = "unauthenticated")]_vars

\* C17: an initialize() that returned made exactly one write of isLoading: false.
InitializeSettlesOnce == init.pc = "done" => init.writes = 1

\* C18: when the gateway sign-out does not answer within the timer's bound,
\* auth.signOut() returns {error: null} and signOut() resolves with the state
\* 'unauthenticated'.
SignOutTimeoutIsSuccess ==
    [][(so.pc = "gateway" /\ so'.pc # "gateway" /\ so'.gateway.kind = "hang")
        => (/\ so'.pc = "done"
            /\ so'.facade = NoError
            /\ so'.ret = NoError
            /\ store'.status = "unauthenticated")]_vars

SignOutTimedOut ==
    /\ so.pc = "done"
    /\ so.gateway.kind = "hang"
    /\ so.ret = NoError
    /\ store.status = "unauthenticated"

\* C19: when the gateway sign-out returned an error or raised, auth.signOut()
\* returns a non-null error.
FacadeSignOutReportsFailure ==
    [][(so.pc = "gateway" /\ so'.pc # "gateway" /\ so'.gateway.kind \in {"err", "throw"})
        => so'.facade # NoError]_vars

\* C20: the facade returns every gateway error and every raise as a non-null
\* error with null data, and every gateway success as error null with the
\* gateway's data.
FacadeNormalises ==
    /\ \A o \in SessionOutcomes :
          /\ auth_getSession(o).error = NoError <=> o.kind = "ok"
          /\ auth_getSession(o).session = IF o.kind = "ok" THEN o.session ELSE NoSession
          /\ auth_getUser(o).error = NoError <=> o.kind = "ok"
          /\ auth_getUser(o).user = IF o.kind = "ok" THEN o.session ELSE NoSession
    /\ cred.pc = "done" => (cred.ret = NoError <=> cred.gateway = "ok")
    /\ (so.pc \in {"emergency", "done"} /\ so.gateway.kind \in {"ok", "err", "throw"})
          => (so.facade = NoError <=> so.gateway.kind = "ok")

\* The latest resolution completed for the guard's current user gave an id.
ResolvedForUser ==
    /\ guard.auth.user # null
    /\ guard.completed[guard.auth.user] \in BusinessIds

\* C12: a guard renders its children only when auth is not loading, the user
\* is non-null and, with requireBusinessContext, the resolution for that user
\* has completed with a business id.
ChildrenOnlyWhenSettled ==
    (guard.variant # "none" /\ View(guard) = "children")
        => (/\ ~guard.auth.isLoading
            /\ guard.auth.user # null
            /\ guard.requireBusinessContext => ResolvedForUser)

\* C13: a redirect to /register/business carries reason=timeout only after a
\* resolution for the user failed with TIMEOUT, reason=error only after it
\* failed otherwise, and reason=no-business only after it found no business.
RedirectReasonMatchesResolution ==
    guard.variant # "none"
        => (/\ guard.redirect.reason = "timeout" => guard.redirect.basis = "TIMEOUT"
            /\ guard.redirect.reason = "error" => guard.redirect.basis = ResolverMessage
            /\ guard.redirect.reason = "no-business" => guard.redirect.basis = null)

\* C24: refreshSession() is callable from any status and writes no status but
\* 'authenticated' and 'unauthenticated'.
RefreshSessionSetsSettledStatus ==
    [][(rs' # rs /\ store' # store)
        => store'.status \in {"authenticated", "unauthenticated"}]_vars

RefreshedWhileAuthenticating ==
    /\ rs.pc = "done"
    /\ rs.query = "live"
    /\ cred.pc = "gateway"
    /\ store.status = "authenticated"

\* C25: for the same answer of the session query and the same cached business
\* id, refreshSession() sets the status, user, businessId and error that
\* initialize() sets after its session query.
RefreshSessionMatchesInitialize ==
    [][(rs.pc = "getSession" /\ rs'.pc # "getSession")
        => \E o \in SessionOutcomes, read \in ReadResults(cache) :
              /\ Query(auth_getSession(o)) = rs'.query
              /\ store' = initialize_settled(auth_getSession(o), read, TRUE)]_vars

AuthenticatingOnlyFromSignedOut ==
    [][(store'.status = "authenticating" /\ store.status # "authenticating")
        => store.status \in {"unauthenticated", "initializing"}]_vars

\* C30: when setBusinessContext() returns an error, the state's error field
\* holds that error.
ContextFailureRecorded ==
    [][(sbc.pc = "setContext" /\ sbc'.pc = "done" /\ sbc'.ret # NoError)
        => store'.error = sbc'.ret]_vars

\* C27: the handler of a logged-in event sets 'authenticated' with the
\* event's user and, when a business id was cached as the event arrived, with
\* that id as businessId and user.businessId, whatever the metadata carries.
LoggedInEventPrefersCachedId ==
    [][(/\ Len(handlers) = 1 /\ handlers' = <<>> /\ store' # store
        /\ handlers[1].pc = "setContext"
        /\ handlers[1].cached # null)
        => (/\ store'.status = "authenticated"
            /\ store'.user.id = handlers[1].session.id
            /\ store'.businessId = handlers[1].cached
            /\ store'.user.businessId = handlers[1].cached)]_vars

\* C29: a second call of signIn, signUp or signOut, answered as the first
\* was, settles in the status and the user presence the first call settled in.
RepeatedCallSettlesAlike ==
    (calls = 2 /\ Quiescent) => Summary(store) = script.first

\* C21: a check of the login view that is suspended at its session query
\* ends, and when it ends neither cancelled nor redirected the form is shown
\* (checkingAuth is false); it issues one session query, timed out after
\* 5000 ms.
LoginCheckEndsWithForm ==
    \A i \in 1..MaxEffectRuns :
        (i \in DOMAIN login.checks /\ login.checks[i].pc = "race")
            ~> (/\ i \in DOMAIN login.checks
                /\ login.checks[i].pc = "done"
                /\ (~login.checks[i].lapsed /\ ~login.hasRedirectedRef)
                      => ~login.checkingAuth)

LoginCheckTimedOut ==
    \E i \in DOMAIN login.checks :
        /\ login.checks[i].pc = "done"
        /\ login.checks[i].query = "timeout"
        /\ ~login.checks[i].lapsed
        /\ ~login.hasRedirectedRef
        /\ ~login.checkingAuth

\* C22: a check whose effect was cleaned up before its session query
\* completed neither redirects nor writes checkingAuth.
CancelledCheckDoesNothing ==
    \A i \in DOMAIN login.checks :
        (login.checks[i].pc = "done" /\ login.checks[i].lapsed)
            => (~login.checks[i].redirects /\ ~login.checks[i].wrote)

\* C23: initialize() sets 'authenticated', and a check of the login view
\* redirects, only after a session query that returned a live session
\* without error.
MarkerAloneNeverAuthenticates ==
    [][/\ (init' # init /\ store' # store /\ store'.status = "authenticated")
            => (init'.pc = "done" /\ init'.query = "live")
       /\ \A i \in DOMAIN login'.checks :
             (login'.checks[i].pc = "done" /\ login'.checks[i].redirects)
                 => login'.checks[i].query = "live"]_vars

MarkerThenFailedQuery ==
    /\ init.pc = "done" /\ init.query = "error"
    /\ store.status = "unauthenticated"
    /\ \E i \in DOMAIN login.checks :
          /\ login.checks[i].pc = "done"
          /\ login.checks[i].query \in {"error", "timeout"}
          /\ ~login.checks[i].redirects
    /\ login.redirects = 0

\* C31: when the local marker check is negative, initialize() sets
\* 'unauthenticated' with no user and no error and returns in the same step:
\* no session query is issued and no change-event callback is registered.
NoMarkerInitializeStaysLocal ==
    [][(initialize /\ ~init'.marker)
          => /\ init'.pc = "done"
             /\ init'.query = "none"
             /\ init'.gateway = NoRequest
             /\ listener' = listener
             /\ store'.status = "unauthenticated"
             /\ store'.user = NoUser
             /\ store'.error = NoError]_vars

NoMarkerInitialized ==
    /\ init.pc = "done" /\ ~init.marker
    /\ init.query = "none"
    /\ store = Unauthenticated(NoError)
    /\ ~listener

\* C32: when initialize() resumes from its session query, an empty session
\* sets 'unauthenticated' without error, and a returned error or a raised
\* exception sets 'unauthenticated' with an error carrying that failure's
\* message.
InitializeErrorOnlyForFailures ==
    [][(init.pc = "getSession" /\ init'.pc = "done")
          => /\ (init'.gateway.kind = "ok" /\ init'.query = "empty")
                  => store' = Unauthenticated(NoError)
             /\ init'.gateway.kind \in {"err", "throw"}
                  => /\ store'.status = "unauthenticated"
                     /\ store'.user = NoUser
                     /\ store'.error # NoError
                     /\ store'.error.message = init'.gateway.message]_vars

InitializeQueryRaised ==
    /\ init.pc = "done" /\ init.marker
    /\ init.gateway.kind = "throw"
    /\ store.status = "unauthenticated"
    /\ store.error.message = init.gateway.message

\* C37: a sign-in whose gateway request succeeded with a business_id in the
\* metadata awaits setBusinessContext for that id, and returns without error
\* whatever that call answers.
SignInSurvivesContextFailure ==
    [][(cred.pc = "setContext" /\ cred'.pc = "done")
          => (cred'.gateway = "ok" /\ cred'.ret = NoError)]_vars

\* C38: whenever the store holds a user, the state's businessId and the
\* user's businessId agree: both absent, or the same id.
BusinessIdMatchesUser ==
    store.user # NoUser => store.user.businessId = store.businessId

\* C39: once a sign-out has completed, an initialize() or a refreshSession()
\* whose session query was issued before that does not set 'authenticated'
\* when it resumes.
SignOutOutlivesEarlierQueries ==
    [][(SignedOut /\ store.status # "authenticated" /\ store'.status = "authenticated")
          => /\ ~(init.pc = "getSession" /\ ~init.signedOut /\ init'.pc = "done")
             /\ ~(rs.pc = "getSession" /\ ~rs.signedOut /\ rs'.pc = "done")]_vars

\* C34: the store starts as {status: 'initializing', user: null, businessId:
\* null, error: null, isLoading: true}; from any state _setUnauthenticated
\* writes all five fields with the given error (or null), and
\* _setAuthenticated writes all five with the given user and id (or null).
InternalTransitionsOverwrite ==
    /\ []((calls = 0 /\ external = 0)
            => store = [status |-> "initializing", user |-> NoUser, businessId |-> null,
                        error |-> NoError, isLoading |-> TRUE])
    /\ [][/\ \A error \in ErrorArguments :
              _setUnauthenticated(error)
                  => store' = [status |-> "unauthenticated", user |-> NoUser,
                               businessId |-> null, error |-> error, isLoading |-> FALSE]
          /\ \A user \in UserArguments, businessId \in BusinessIds \cup {null} :
              _setAuthenticated(user, businessId)
                  => store' = [status |-> "authenticated", user |-> user,
                               businessId |-> businessId, error |-> NoError,
                               isLoading |-> FALSE]]_vars

SetUnauthenticatedOverUser ==
    /\ calls = 2 /\ external = 0
    /\ \A c \in {init, cred, so, eso, rs, sbc} : c = Idle
    /\ store.status = "unauthenticated" /\ store.error # NoError
    /\ store.user = NoUser /\ store.businessId = null

\* C36: the login view redirects at most once; once hasRedirectedRef is set
\* no check redirects, whether it starts later or was pending, and no run of
\* the effect starts a session query.
AtMostOneLoginRedirect ==
    [][/\ login'.redirects <= 1
       /\ login.hasRedirectedRef
            => /\ login'.redirects = login.redirects
               /\ Len(login'.checks) = Len(login.checks)
               /\ login'.hasRedirectedRef]_vars

SecondLiveCheckStaysPut ==
    /\ login.redirects = 1 /\ login.hasRedirectedRef
    /\ \E i, j \in DOMAIN login.checks :
          /\ login.checks[i].pc = "done" /\ login.checks[i].redirects
          /\ login.checks[j].pc = "done" /\ login.checks[j].query = "live"
          /\ ~login.checks[j].redirects

\* C35: the context-based guard with requireBusinessContext redirects to
\* /register/business only after a resolution started for the user of the
\* push has completed with a null id or an error.
NoRegisterRedirectBeforeResolution ==
    (/\ guard.variant = "context"
     /\ guard.requireBusinessContext
     /\ guard.redirect.reason \in {"no-business", "timeout", "error"})
        => guard.redirect.basis \in {null, "TIMEOUT", ResolverMessage}

\* C40: once the effects of a render have run, useBusinessContext exposes a
\* businessId only with a user for whom a resolution has completed, and
\* never beside an error.
ExposedBusinessIdIsCurrent ==
    (/\ guard.variant = "context"
     /\ ~guard.effects.hook /\ ~guard.effects.guard
     /\ guard.hook.businessId # null)
        => /\ guard.auth.user # null
           /\ guard.hook.error = null
           /\ guard.completed[guard.auth.user] # "none"

\* A call of enhancedSignOut that returned after its cleanup routine failed,
\* with redirectToLogin in the config.
FailedWithRedirect(call) ==
    /\ call.pc = "done"
    /\ call.cleanup \in {"err", "throw"}
    /\ call.config.redirectToLogin

\* C33: an enhancedSignOut whose cleanup routine failed and whose config has
\* redirectToLogin has navigated, when it returns, to config.redirectUrl, or
\* to '/login' without one - in the store as in the context.
FailedCleanupStillNavigates ==
    \A call \in {eso, context.eso} :
        FailedWithRedirect(call)
            => call.navigated = IF call.config.redirectUrl # null
                                THEN call.config.redirectUrl ELSE "/login"

====
